---- MODULE Spec2Model ----
(***************************************************************************)
(* Model of the potions REST service: the auth routes (register, login,    *)
(* logout), the catalog routes (CRUD and filtered listings on potions) and *)
(* the analytics search route, as state machines over the two document     *)
(* collections.  Strings whose characters matter (names, passwords, query  *)
(* values) are sequences of one-character strings.                         *)
(***************************************************************************)
EXTENDS Integers, Sequences, FiniteSets, Bags, TLC

VARIABLES
    users,      \* the users collection: set of [name, password]
    inflight,   \* bag of register requests suspended at `await user.save()`
    jar,        \* the client's session cookie
    now,        \* wall clock, in hours
    potions,    \* the potions collection: set of documents (records with _id)
    nextId,     \* number of ObjectIds the driver has generated so far
    deleted,    \* history: the ids whose delete was answered 200
    last        \* the last request completed, with its response

vars == <<users, inflight, jar, now, potions, nextId, deleted, last>>

authVars == <<users, inflight, jar>>
catalogVars == <<potions, nextId, deleted>>

----------------------------------------------------------------------------
(* Bounds of the model *)

MaxUsers == 2          \* users inserted or being inserted
MaxNow == 24           \* the clock stops here
MaxIds == 2            \* ObjectIds the driver generates

(* Program constants *)

MinNameLen == 3
MaxNameLen == 30
MinPasswordLen == 6
TokenValidityHours == 24

JWT_SECRET == "dev_secret"

----------------------------------------------------------------------------
(* Strings *)

RECURSIVE Rep(_, _)
Rep(c, n) == IF n = 0 THEN <<>> ELSE <<c>> \o Rep(c, n - 1)

IsSpace(c) == c = " "

RECURSIVE TrimLeft(_)
TrimLeft(s) ==
    IF s # <<>> /\ IsSpace(Head(s)) THEN TrimLeft(Tail(s)) ELSE s

RECURSIVE TrimRight(_)
TrimRight(s) ==
    IF s # <<>> /\ IsSpace(s[Len(s)])
    THEN TrimRight(SubSeq(s, 1, Len(s) - 1))
    ELSE s

\* validator.js trim(): strips whitespace on both sides
trim(s) == TrimRight(TrimLeft(s))

EscapeChar(c) ==
    CASE c = "&" -> <<"&", "a", "m", "p", ";">>
      [] c = "<" -> <<"&", "l", "t", ";">>
      [] c = ">" -> <<"&", "g", "t", ";">>
      [] OTHER   -> <<c>>

RECURSIVE escape(_)
\* validator.js escape(): replaces the HTML-special characters by entities
escape(s) == IF s = <<>> THEN <<>> ELSE EscapeChar(Head(s)) \o escape(Tail(s))

\* express-validator hands a missing field to the chain as the empty string
FieldString(body, f) == IF f \in DOMAIN body THEN body[f] ELSE <<>>

----------------------------------------------------------------------------
(* Responses *)

NoRequest == [op |-> "none", status |-> 0]

\* status of a request whose handler threw outside any try/catch: Express
\* sends nothing
NoResponse == 0

----------------------------------------------------------------------------
(* Session cookies and the authentication guard *)

NoCookie == [kind |-> "none", sig |-> "", exp |-> 0, name |-> <<>>]

\* jwt.sign({ id: user._id, name: user.name }, JWT_SECRET, { expiresIn: '1d' });
\* the unique name stands for the pair (id, name)
SignToken(user) ==
    [kind |-> "jwt", sig |-> JWT_SECRET, exp |-> now + TokenValidityHours,
     name |-> user.name]

\* The guard's verification of the session cookie: present, well formed,
\* signed with the secret and not expired.
VerifyCookie(c) == c.kind = "jwt" /\ c.sig = JWT_SECRET /\ now < c.exp

----------------------------------------------------------------------------
(* Auth routes: the users collection *)

\* The pre-save derivation of the stored password: one-way, so the stored
\* value is never the clear text.
Hash(pw) == [bcrypt |-> pw]

comparePassword(user, candidate) == user.password = Hash(candidate)

\* unique index on name
DuplicateKey(name) == \E u \in users : u.name = name

isLength(s, min, max) == Len(s) >= min /\ Len(s) <= max

isLengthMin(s, min) == Len(s) >= min

FieldError(param, msg) == [param |-> param, msg |-> msg]

\* body('name').trim().escape(): the value the rest of the chain sees and
\* the handler reads back from req.body
SanitizedName(body) == escape(trim(FieldString(body, "name")))

SanitizedPassword(body) == escape(trim(FieldString(body, "password")))

NameErrors(v) ==
    (IF v = <<>> THEN <<FieldError("name", "requis")>> ELSE <<>>)
    \o (IF ~isLength(v, MinNameLen, MaxNameLen)
        THEN <<FieldError("name", "entre 3 et 30")>> ELSE <<>>)

PasswordErrors(v) ==
    (IF v = <<>> THEN <<FieldError("password", "requis")>> ELSE <<>>)
    \o (IF ~isLengthMin(v, MinPasswordLen)
        THEN <<FieldError("password", "minimum 6")>> ELSE <<>>)

\* validationResult(req).array(): the errors of both chains, in order
validationResult(body) ==
    NameErrors(SanitizedName(body)) \o PasswordErrors(SanitizedPassword(body))

\* POST /auth/register up to `await user.save()`: a request that fails
\* validation is answered at once, one that passes is suspended on the save.
RegisterRequest(body) ==
    LET errors == validationResult(body) IN
    /\ UNCHANGED <<now, catalogVars>>
    /\ IF errors # <<>>
       THEN /\ last' = [op |-> "register", req |-> body, status |-> 400,
                        body |-> [errors |-> errors], storeOk |-> TRUE]
            /\ UNCHANGED <<users, inflight, jar>>
       ELSE /\ Cardinality(users) + BagCardinality(inflight) < MaxUsers
            /\ inflight' = inflight (+) SetToBag({
                   [raw |-> body, name |-> SanitizedName(body),
                    password |-> SanitizedPassword(body)]})
            /\ UNCHANGED <<users, jar, last>>

\* the catch block without the E11000 case: the driver's message, which
\* names the duplicate key, goes to the client
RegisterError_Leaky(code) ==
    IF code = 11000
    THEN [status |-> 400, body |-> [error |-> "E11000 duplicate key: name"]]
    ELSE [status |-> 400, body |-> [error |-> "err.message"]]

\* the catch block of the register handler
RegisterError(code) ==
    IF code = 11000
    THEN [status |-> 500, body |-> [error |-> "Erreur systeme"]]
    ELSE [status |-> 400, body |-> [error |-> "err.message"]]

\* POST /auth/register from the save on: the store executes the insert of
\* suspended request r (or fails), and the handler answers.
RegisterSave(r, storeOk) ==
    LET user == [name |-> r.name, password |-> Hash(r.password)]
        \* the error code of a rejected insert: E11000 from the unique index
        code == IF storeOk /\ DuplicateKey(r.name) THEN 11000 ELSE 0
        err == RegisterError(code)
    IN
    /\ inflight' = inflight (-) SetToBag({r})
    /\ UNCHANGED <<jar, now, catalogVars>>
    /\ IF storeOk /\ ~DuplicateKey(r.name)
       THEN /\ users' = users \cup {user}
            /\ last' = [op |-> "register", req |-> r.raw, status |-> 201,
                        body |-> [message |-> "Utilisateur cree"],
                        storeOk |-> storeOk]
       ELSE /\ users' = users
            /\ last' = [op |-> "register", req |-> r.raw,
                        status |-> err.status, body |-> err.body,
                        storeOk |-> storeOk]

\* User.findOne({ name }); req.bodyString gives nothing for a missing field
findOne(body) ==
    IF "name" \in DOMAIN body THEN {u \in users : u.name = body.name} ELSE {}

\* the check with the promise of comparePassword negated unawaited: the
\* password is never compared
CredentialsOk_NoAwait(found, body) == found # {}

\* the credential check of the login handler
CredentialsOk(found, body) ==
    /\ found # {}
    /\ "password" \in DOMAIN body
    /\ \A u \in found : comparePassword(u, body.password)

\* POST /auth/login
Login(body, storeOk) ==
    LET found == findOne(body) IN
    /\ UNCHANGED <<users, inflight, now, catalogVars>>
    /\ IF ~storeOk
       THEN \* findOne rejects outside any try/catch
            /\ last' = [op |-> "login", req |-> body, status |-> NoResponse,
                        body |-> [error |-> "none"], setCookie |-> FALSE,
                        storeOk |-> FALSE]
            /\ jar' = jar
       ELSE IF ~CredentialsOk(found, body)
       THEN /\ last' = [op |-> "login", req |-> body, status |-> 401,
                        body |-> [error |-> "Identifiants invalides"],
                        setCookie |-> FALSE, storeOk |-> TRUE]
            /\ jar' = jar
       ELSE /\ jar' = SignToken(CHOOSE u \in found : TRUE)
            /\ last' = [op |-> "login", req |-> body, status |-> 200,
                        body |-> [message |-> "Connecte avec succes"],
                        setCookie |-> TRUE, storeOk |-> TRUE]

\* a logout that answers without clearing the cookie
Logout_KeepsCookie ==
    /\ jar' = jar
    /\ last' = [op |-> "logout", status |-> 200,
                body |-> [message |-> "Deconnecte"]]
    /\ UNCHANGED <<users, inflight, now, catalogVars>>

\* GET /auth/logout
Logout ==
    /\ jar' = NoCookie
    /\ last' = [op |-> "logout", status |-> 200,
                body |-> [message |-> "Deconnecte"]]
    /\ UNCHANGED <<users, inflight, now, catalogVars>>

----------------------------------------------------------------------------
(* Catalog routes: the potions collection *)

\* A path or payload identifier: a string that is the 24 hex digits of the
\* n-th ObjectId, or one that is no ObjectId at all.
Oid(n) == [hex |-> TRUE, n |-> n]

Malformed == [hex |-> FALSE, n |-> 0]

\* Object.assign: the fields of b over those of a
Merge(a, b) ==
    [k \in DOMAIN a \cup DOMAIN b |-> IF k \in DOMAIN b THEN b[k] ELSE a[k]]

Has(doc, f) == f \in DOMAIN doc

\* the cast of an identifier to the _id type of the Potion schema
CastsToObjectId(id) == id.hex

ById(id) == {p \in potions : p._id = id}

\* the guard in the registration of the three mutating routes; a route
\* registered without it runs its handler for every request
Unguarded(cookie) == TRUE

CreateGuard(cookie) == VerifyCookie(cookie)

UpdateGuard(cookie) == VerifyCookie(cookie)

DeleteGuard(cookie) == VerifyCookie(cookie)

Guard(op, cookie) ==
    CASE op = "create" -> CreateGuard(cookie)
      [] op = "update" -> UpdateGuard(cookie)
      [] op = "delete" -> DeleteGuard(cookie)

\* The guard answers before the handler is entered: nothing of the request
\* but its cookie is read.
GuardRejects(op, cookie) ==
    /\ ~Guard(op, cookie)
    /\ last' = [op |-> op, req |-> [cookie |-> cookie], status |-> 401,
                body |-> [error |-> "Unauthorized"], storeCalls |-> 0,
                storeOk |-> TRUE]
    /\ UNCHANGED <<catalogVars, now, authVars>>

Answer(op, req, status, body, storeOk) ==
    [op |-> op, req |-> req, status |-> status, body |-> body,
     storeCalls |-> 1, storeOk |-> storeOk]

Error(msg) == [error |-> msg]

\* POST /potions
Create(cookie, payload, storeOk) ==
    LET given == Has(payload, "_id")
        \* new Potion(req.body): the payload's _id, or a generated one
        id == IF given THEN payload._id ELSE Oid(nextId + 1)
        doc == Merge(payload, [_id |-> id])
        req == [cookie |-> cookie, payload |-> payload]
        saved == /\ CastsToObjectId(id)
                 /\ storeOk
                 /\ ById(id) = {}
    IN
    /\ Guard("create", cookie)
    /\ UNCHANGED <<now, authVars>>
    /\ ~given => nextId < MaxIds
    /\ nextId' = IF given THEN nextId ELSE nextId + 1
    /\ deleted' = deleted
    /\ IF saved
       THEN /\ potions' = potions \cup {doc}
            /\ last' = Answer("create", req, 201, doc, storeOk)
       ELSE /\ potions' = potions
            /\ last' = Answer("create", req, 400, Error("err.message"), storeOk)

\* the status of the catch block of the handlers of /potions/:id
CatchStatus == 500

\* an update that replaces the document by the payload
Updated_Overwrite(old, payload) == Merge([_id |-> old._id], payload)

\* the document findByIdAndUpdate(id, req.body, { new: true }) stores and
\* returns: the submitted fields set over the stored ones
Updated(old, payload) == Merge(old, payload)

\* POST /potions/:id
Update(cookie, id, payload, storeOk) ==
    LET req == [cookie |-> cookie, id |-> id, payload |-> payload]
        \* findByIdAndUpdate throws: a cast error, a store failure, or the
        \* store refusing to change the _id of the document it matched
        throws == \/ ~CastsToObjectId(id)
                  \/ Has(payload, "_id") /\ ~CastsToObjectId(payload._id)
                  \/ ~storeOk
                  \/ ById(id) # {} /\ Has(payload, "_id") /\ payload._id # id
    IN
    /\ Guard("update", cookie)
    /\ UNCHANGED <<nextId, deleted, now, authVars>>
    /\ IF throws
       THEN /\ potions' = potions
            /\ last' = Answer("update", req, CatchStatus, Error("err.message"),
                              storeOk)
       ELSE IF ById(id) = {}
       THEN /\ potions' = potions
            /\ last' = Answer("update", req, 404, Error("Potion non trouvee"),
                              storeOk)
       ELSE LET old == CHOOSE p \in ById(id) : TRUE
                new == Updated(old, payload)
            IN  /\ potions' = (potions \ {old}) \cup {new}
                /\ last' = Answer("update", req, 200, new, storeOk)

\* a delete that looks the document up and leaves it in place
Remaining_All(id) == potions

\* the collection after findByIdAndDelete(id)
Remaining(id) == potions \ ById(id)

\* DELETE /potions/:id
Delete(cookie, id, storeOk) ==
    LET req == [cookie |-> cookie, id |-> id]
        throws == ~CastsToObjectId(id) \/ ~storeOk
    IN
    /\ Guard("delete", cookie)
    /\ UNCHANGED <<nextId, now, authVars>>
    /\ IF throws
       THEN /\ UNCHANGED <<potions, deleted>>
            /\ last' = Answer("delete", req, CatchStatus, Error("err.message"),
                              storeOk)
       ELSE IF ById(id) = {}
       THEN /\ UNCHANGED <<potions, deleted>>
            /\ last' = Answer("delete", req, 404, Error("Potion non trouvee"),
                              storeOk)
       ELSE /\ potions' = Remaining(id)
            /\ deleted' = deleted \cup {id}
            /\ last' = Answer("delete", req, 200,
                              [message |-> "Potion supprimee"], storeOk)

\* the answer of GET /potions/:id in the current state
GetByIdAnswer(id, storeOk) ==
    IF ~CastsToObjectId(id) \/ ~storeOk
    THEN [status |-> CatchStatus, body |-> Error("err.message")]
    ELSE IF ById(id) = {}
    THEN [status |-> 404, body |-> Error("Potion non trouvee")]
    ELSE [status |-> 200, body |-> CHOOSE p \in ById(id) : TRUE]

\* GET /potions/:id
GetById(id, storeOk) ==
    LET a == GetByIdAnswer(id, storeOk) IN
    /\ last' = Answer("getById", [id |-> id], a.status, a.body, storeOk)
    /\ UNCHANGED <<catalogVars, now, authVars>>

\* Potion.find(filter) of the two filtered listings
ByVendor(vendor_id) ==
    {p \in potions : Has(p, "vendor_id") /\ p.vendor_id = vendor_id}

\* the answer of a listing route: the documents found, or the catch block
ListAnswer(found, storeOk) ==
    IF storeOk THEN [status |-> 200, body |-> [docs |-> found]]
    ELSE [status |-> 500, body |-> Error("err.message")]

\* GET /potions/vendor/:vendor_id
ListByVendor(vendor_id, storeOk) ==
    LET a == ListAnswer(ByVendor(vendor_id), storeOk) IN
    /\ last' = Answer("listByVendor", [vendor_id |-> vendor_id], a.status,
                      a.body, storeOk)
    /\ UNCHANGED <<catalogVars, now, authVars>>

\* GET /potions
ListAll(storeOk) ==
    LET a == ListAnswer(potions, storeOk) IN
    /\ last' = Answer("listAll", [all |-> TRUE], a.status, a.body, storeOk)
    /\ UNCHANGED <<catalogVars, now, authVars>>

\* the clock: one validity period of a token passes
Tick ==
    /\ now + TokenValidityHours <= MaxNow
    /\ now' = now + TokenValidityHours
    /\ UNCHANGED <<authVars, catalogVars, last>>

----------------------------------------------------------------------------
(* GET /potions/price-range *)

NaN == [nan |-> TRUE, val |-> 0]

Number(n) == [nan |-> FALSE, val |-> n]

isNaN(x) == x.nan

IsDigit(c) == c \in {"0", "1", "2", "3", "4", "5", "6", "7", "8", "9"}

DigitValue(c) ==
    CASE c = "0" -> 0 [] c = "1" -> 1 [] c = "2" -> 2 [] c = "3" -> 3
      [] c = "4" -> 4 [] c = "5" -> 5 [] c = "6" -> 6 [] c = "7" -> 7
      [] c = "8" -> 8 [] c = "9" -> 9

RECURSIVE DigitPrefix(_)
\* the longest prefix of s made of digits
DigitPrefix(s) ==
    IF s # <<>> /\ IsDigit(Head(s))
    THEN <<Head(s)>> \o DigitPrefix(Tail(s))
    ELSE <<>>

RECURSIVE Decimal(_)
Decimal(ds) ==
    IF ds = <<>> THEN 0
    ELSE 10 * Decimal(SubSeq(ds, 1, Len(ds) - 1)) + DigitValue(ds[Len(ds)])

\* parseFloat on a string of digits, letters, blanks and a sign: leading
\* whitespace is skipped, the longest numeric prefix is read and what
\* follows it is ignored; NaN when there is no such prefix.
ParseString(s) ==
    LET t == TrimLeft(s)
        signed == t # <<>> /\ Head(t) \in {"-", "+"}
        ds == DigitPrefix(IF signed THEN Tail(t) ELSE t)
    IN  IF ds = <<>> THEN NaN
        ELSE IF signed /\ Head(t) = "-" THEN Number(0 - Decimal(ds))
        ELSE Number(Decimal(ds))

\* parseFloat(req.query.x): a parameter that is not sent is undefined
parseFloat(query, x) == IF Has(query, x) THEN ParseString(query[x]) ELSE NaN

\* if (!isNaN(min)) priceFilter.$gte = min
GteBound(min) == IF ~isNaN(min) THEN [gte |-> min.val] ELSE [k \in {} |-> 0]

\* the upper bound taken as exclusive
LteMatches_Strict(p, filter) == Has(filter, "lte") => p.price < filter.lte

\* a price against the $lte of the filter
LteMatches(p, filter) == Has(filter, "lte") => p.price <= filter.lte

\* if (!isNaN(max)) priceFilter.$lte = max
LteBound(max) == IF ~isNaN(max) THEN [lte |-> max.val] ELSE [k \in {} |-> 0]

\* Potion.find(query) for the query of the price-range route
FindByPrice(priceFilter) ==
    IF DOMAIN priceFilter = {} THEN potions
    ELSE {p \in potions :
            /\ Has(p, "price")
            /\ Has(priceFilter, "gte") => p.price >= priceFilter.gte
            /\ LteMatches(p, priceFilter)}

\* GET /potions/price-range
PriceRange(query, storeOk) ==
    LET min == parseFloat(query, "min")
        max == parseFloat(query, "max")
        priceFilter == Merge(GteBound(min), LteBound(max))
        a == ListAnswer(FindByPrice(priceFilter), storeOk)
    IN
    /\ last' = Answer("priceRange", query, a.status, a.body, storeOk)
    /\ UNCHANGED <<catalogVars, now, authVars>>

----------------------------------------------------------------------------
(* GET /analytics/search *)

\* the properties every object literal inherits from Object.prototype
ObjectPrototype ==
    {"constructor", "toString", "valueOf", "hasOwnProperty", "__proto__"}

Undefined == [kind |-> "undefined", val |-> ""]

\* allowedMetrics[metric]: the accumulator of an allowed metric, what the
\* prototype holds under an inherited name, undefined otherwise
allowedMetrics(metric) ==
    IF metric \in {"avg", "sum", "count"}
    THEN [kind |-> "string", val |-> metric]
    ELSE IF metric \in ObjectPrototype
    THEN [kind |-> "inherited", val |-> metric]
    ELSE Undefined

Param(query, x) == IF Has(query, x) THEN query[x] ELSE ""

\* the rejection test without the exemption of count: field always required
InvalidParams_FieldRequired(query) ==
    LET mongoMetric == IF Has(query, "metric")
                       THEN allowedMetrics(Param(query, "metric"))
                       ELSE Undefined
    IN  \/ mongoMetric.kind = "undefined"
        \/ Param(query, "groupBy") = ""
        \/ Param(query, "field") = ""

\* the rejection test of the search handler
InvalidParams(query) ==
    LET metric == Param(query, "metric")
        mongoMetric == IF Has(query, "metric") THEN allowedMetrics(metric)
                       ELSE Undefined
    IN  \/ mongoMetric.kind = "undefined"
        \/ Param(query, "groupBy") = ""
        \/ Param(query, "field") = "" /\ metric # "count"

\* the value of `$groupBy` in a document: a missing field groups under null
GroupKey(p, groupBy) == IF Has(p, groupBy) THEN <<p[groupBy]>> ELSE <<>>

NumericFields == {"price"}

\* the documents of a group that hold a number under field
Numeric(group, field) ==
    IF field \in NumericFields THEN {p \in group : Has(p, field)} ELSE {}

RECURSIVE SumOf(_, _)
SumOf(docs, field) ==
    IF docs = {} THEN 0
    ELSE LET p == CHOOSE q \in docs : TRUE
         IN  p[field] + SumOf(docs \ {p}, field)

\* Potion.aggregate([{ $group: groupStage }]); an average is the pair of the
\* sum and the number of values, a null one has no values
Aggregate(query) ==
    LET groupBy == query.groupBy
        keys == {GroupKey(p, groupBy) : p \in potions}
        group(k) == {p \in potions : GroupKey(p, groupBy) = k}
    IN  IF query.metric = "count"
        THEN {[_id |-> k, count |-> Cardinality(group(k))] : k \in keys}
        ELSE IF query.metric = "sum"
        THEN {[_id |-> k, result |-> SumOf(Numeric(group(k), query.field),
                                           query.field)] : k \in keys}
        ELSE {[_id |-> k,
               result |-> [sum |-> SumOf(Numeric(group(k), query.field),
                                         query.field),
                           n |-> Cardinality(Numeric(group(k), query.field))]]
              : k \in keys}

\* GET /analytics/search
Search(query, storeOk) ==
    LET mongoMetric == allowedMetrics(Param(query, "metric")) IN
    /\ UNCHANGED <<catalogVars, now, authVars>>
    /\ IF InvalidParams(query)
       THEN last' = [op |-> "search", req |-> query, status |-> 400,
                     body |-> Error("Parametres invalides"), storeCalls |-> 0,
                     storeOk |-> TRUE]
       ELSE IF ~storeOk \/ mongoMetric.kind # "string"
       THEN \* the store fails, or refuses a $group whose accumulator is the
            \* text of an inherited function
            last' = Answer("search", query, 500, Error("err.message"), storeOk)
       ELSE last' = Answer("search", query, 200, [docs |-> Aggregate(query)],
                           storeOk)

----------------------------------------------------------------------------
(* GET /analytics/strength-flavor-ratio *)

\* the value of an expression of the pipeline: null (a missing path
\* included) or the quotient num/den of two numbers
Null == [kind |-> "null", num |-> 0, den |-> 1]

Quotient(num, den) == [kind |-> "number", num |-> num, den |-> den]

\* '$ratings.strength' / '$ratings.flavor' resolve to a number of the document
HasRating(p, r) == Has(p, "ratings") /\ Has(p.ratings, r)

\* a $cond whose test never holds: the division is always evaluated
FlavorIsZero_Never(p) == FALSE

\* { $eq: ['$ratings.flavor', 0] }
FlavorIsZero(p) == HasRating(p, "flavor") /\ p.ratings.flavor = 0

\* $divide is evaluated on two numbers and the divisor is 0: the server
\* fails the whole aggregation
DivideThrows(p) ==
    /\ ~FlavorIsZero(p)
    /\ HasRating(p, "strength")
    /\ HasRating(p, "flavor")
    /\ p.ratings.flavor = 0

\* { $divide: ['$ratings.strength', '$ratings.flavor'] }: null when an
\* operand is null or missing
Divide(p) ==
    IF HasRating(p, "strength") /\ HasRating(p, "flavor")
    THEN Quotient(p.ratings.strength, p.ratings.flavor)
    ELSE Null

\* the $cond of the projection
strengthFlavorRatio(p) == IF FlavorIsZero(p) THEN Null ELSE Divide(p)

\* the $project stage: _id, name when the document has one, and the ratio
Project(p) ==
    Merge(IF Has(p, "name") THEN [name |-> p.name] ELSE [k \in {} |-> 0],
          [_id |-> p._id, strengthFlavorRatio |-> strengthFlavorRatio(p)])

\* GET /analytics/strength-flavor-ratio
StrengthFlavorRatio(storeOk) ==
    LET throws == ~storeOk \/ \E p \in potions : DivideThrows(p) IN
    /\ UNCHANGED <<catalogVars, now, authVars>>
    /\ IF throws
       THEN last' = Answer("ratio", [all |-> TRUE], 500, Error("err.message"),
                           storeOk)
       ELSE last' = Answer("ratio", [all |-> TRUE], 200,
                           [entries |-> {Project(p) : p \in potions}], storeOk)

----------------------------------------------------------------------------
(* Dispatch of the potions router *)

\* a segment of a route path: a literal, or a named parameter
Lit(name) == [param |-> FALSE, name |-> name]

Par(name) == [param |-> TRUE, name |-> name]

Route(method, pattern, handler) ==
    [method |-> method, pattern |-> pattern, handler |-> handler]

\* the registration with the route of the identifier first
Routes_IdFirst ==
    <<Route("GET", <<Par("id")>>, "getById"),
      Route("GET", <<>>, "listAll"),
      Route("GET", <<Lit("names")>>, "names"),
      Route("GET", <<Lit("vendor"), Par("vendor_id")>>, "listByVendor"),
      Route("GET", <<Lit("price-range")>>, "priceRange"),
      Route("POST", <<>>, "create"),
      Route("POST", <<Par("id")>>, "update"),
      Route("DELETE", <<Par("id")>>, "delete")>>

\* the routes of the potions router, in the order of their registration
Routes ==
    <<Route("GET", <<>>, "listAll"),
      Route("GET", <<Lit("names")>>, "names"),
      Route("GET", <<Lit("vendor"), Par("vendor_id")>>, "listByVendor"),
      Route("GET", <<Lit("price-range")>>, "priceRange"),
      Route("POST", <<>>, "create"),
      Route("POST", <<Par("id")>>, "update"),
      Route("DELETE", <<Par("id")>>, "delete"),
      Route("GET", <<Par("id")>>, "getById")>>

\* a route matches a request of its method whose path has its segments:
\* a literal matches itself, a parameter any one segment
Matches(route, method, path) ==
    /\ route.method = method
    /\ Len(route.pattern) = Len(path)
    /\ \A i \in 1..Len(path) :
          route.pattern[i].param \/ route.pattern[i].name = path[i]

\* the router runs the first route registered that matches; every handler
\* answers without calling next(), so no later route runs
Dispatch(method, path) ==
    LET hits == {i \in 1..Len(Routes) : Matches(Routes[i], method, path)} IN
    IF hits = {} THEN "notFound"
    ELSE Routes[CHOOSE i \in hits : \A j \in hits : i <= j].handler

\* req.params.id as the store reads it
PathId(segment) ==
    CASE segment = "oid1" -> Oid(1)
      [] segment = "oid2" -> Oid(2)
      [] OTHER -> Malformed

NameOf(p) == IF Has(p, "name") THEN p.name ELSE "null"

\* names.map(p => p.name) over Potion.find({}, 'name'): the names, each as
\* many times as potions bear it
NamesOf(docs) ==
    [n \in {NameOf(p) : p \in docs} |->
        Cardinality({p \in docs : NameOf(p) = n})]

\* the answer of GET /potions/names
NamesAnswer(storeOk) ==
    IF storeOk THEN [status |-> 200, body |-> [names |-> NamesOf(potions)]]
    ELSE [status |-> 500, body |-> Error("err.message")]

\* a GET request on the potions router (no query string)
Get(path, storeOk) ==
    LET handler == Dispatch("GET", path)
        a == CASE handler = "listAll" -> ListAnswer(potions, storeOk)
               [] handler = "names" -> NamesAnswer(storeOk)
               [] handler = "listByVendor" ->
                     ListAnswer(ByVendor(path[2]), storeOk)
               [] handler = "priceRange" ->
                     ListAnswer(FindByPrice([k \in {} |-> 0]), storeOk)
               [] handler = "getById" ->
                     GetByIdAnswer(PathId(path[1]), storeOk)
               [] OTHER -> [status |-> 404, body |-> Error("Cannot GET")]
    IN
    /\ last' = Answer(handler, [method |-> "GET", path |-> path], a.status,
                      a.body, storeOk)
    /\ UNCHANGED <<catalogVars, now, authVars>>

----------------------------------------------------------------------------
(* Inputs of the auth routes *)

\* names around the two length limits, with and without characters that
\* trim() removes or escape() lengthens
NameInputs ==
    {<<>>,
     Rep("a", MinNameLen - 1),
     <<"a", "&">>,
     <<" ">> \o Rep("a", MinNameLen - 1) \o <<" ">>,
     Rep("a", MinNameLen),
     <<" ">> \o Rep("a", MinNameLen),
     Rep("a", MaxNameLen),
     Rep("a", MaxNameLen + 1),
     Rep("a", MaxNameLen - 1) \o <<"<">>}

PasswordInputs ==
    {Rep("p", MinPasswordLen - 1),
     Rep("p", MinPasswordLen),
     <<"&">> \o Rep("p", MinPasswordLen - 2),
     <<" ">> \o Rep("p", MinPasswordLen - 1)}

Bodies(names, passwords) ==
    {[name |-> n, password |-> p] : n \in names, p \in passwords}
    \cup {[name |-> n] : n \in names}
    \cup {[password |-> p] : p \in passwords}

RegisterBodies == Bodies(NameInputs, PasswordInputs)

LoginNames ==
    {Rep("a", MinNameLen), <<"a", "&">>, escape(<<"a", "&">>),
     Rep("b", MinNameLen)}

LoginPasswords ==
    {Rep("p", MinPasswordLen),
     <<"&">> \o Rep("p", MinPasswordLen - 2),
     escape(<<"&">> \o Rep("p", MinPasswordLen - 2)),
     Rep("q", MinPasswordLen)}

LoginBodies == Bodies(LoginNames, LoginPasswords)

----------------------------------------------------------------------------
(* Inputs of the catalog routes *)

Vendors == {"v1", "v2"}

\* a token the login route signed at hour 0, and what a client can send
\* in its place
IssuedToken ==
    [kind |-> "jwt", sig |-> JWT_SECRET, exp |-> TokenValidityHours,
     name |-> Rep("a", MinNameLen)]

ForgedToken == [IssuedToken EXCEPT !.sig = "guess"]

GarbageCookie == [NoCookie EXCEPT !.kind = "garbage"]

Cookies == {NoCookie, GarbageCookie, ForgedToken, IssuedToken}

\* identifiers a client can name: those it has seen generated, the next
\* one, and a string that is no ObjectId
PathIds == {Oid(n) : n \in 1..MaxIds} \cup {Malformed}

KnownIds == {Oid(n) : n \in 1..nextId}

CreatePayloads ==
    {[vendor_id |-> "v1", price |-> 1],
     [vendor_id |-> "v2", price |-> 2],
     [price |-> 1],
     [_id |-> Malformed, vendor_id |-> "v1", price |-> 1]}
    \cup {[_id |-> id, vendor_id |-> "v2", price |-> 1] : id \in KnownIds}

UpdatePayloads ==
    {[price |-> 2], [vendor_id |-> "v2"], [_id |-> Oid(1), price |-> 1]}

\* the potions the query specifications fill the catalog with
QueryPayloads ==
    {[vendor_id |-> "v1", price |-> 1],
     [vendor_id |-> "v1", price |-> 2],
     [vendor_id |-> "v2", price |-> 2],
     [vendor_id |-> "v2", price |-> 3],
     [vendor_id |-> "v1"],
     [price |-> 1]}

\* the potions the ratio specification fills the catalog with: flavor zero,
\* non-zero and negative, a rating or both missing
RatioPayloads ==
    {[name |-> "n1", ratings |-> [strength |-> 4, flavor |-> 0]],
     [name |-> "n2", ratings |-> [strength |-> 3, flavor |-> 2]],
     [ratings |-> [strength |-> 0, flavor |-> 0]],
     [ratings |-> [strength |-> 2, flavor |-> -4]],
     [ratings |-> [strength |-> 1]],
     [name |-> "n3"]}

Params(names, values) ==
    UNION {[D -> values] : D \in SUBSET names}

\* values of min and max: empty, alphabetic, numbers, and a number followed
\* by a letter
BoundInputs == {<<>>, <<"a">>, <<"1">>, <<"2">>, <<"2", "a">>}

PriceQueries == Params({"min", "max"}, BoundInputs)

MetricInputs == {"avg", "sum", "count", "max", "constructor"}

SearchQueries ==
    {Merge(Merge(m, g), f) :
        m \in Params({"metric"}, MetricInputs),
        g \in Params({"groupBy"}, {"vendor_id", "price"}),
        f \in Params({"field"}, {"price", "vendor_id"})}

----------------------------------------------------------------------------
(* Inputs of a session: one client going through all the routes *)

SessionRegisterBodies ==
    {[name |-> Rep("a", MinNameLen), password |-> Rep("p", MinPasswordLen)],
     [name |-> Rep("a", MinNameLen - 1), password |-> Rep("p", MinPasswordLen)]}

SessionLoginBodies ==
    {[name |-> Rep("a", MinNameLen), password |-> Rep("p", MinPasswordLen)],
     [name |-> Rep("a", MinNameLen), password |-> Rep("q", MinPasswordLen)],
     [name |-> Rep("b", MinNameLen), password |-> Rep("p", MinPasswordLen)]}

SessionIds == {Oid(1), Malformed}

SessionPayloads == {[vendor_id |-> "v1", price |-> 1]}

SessionQueries == {[metric |-> "count", groupBy |-> "vendor_id"]}

----------------------------------------------------------------------------
(* Inputs of the dispatch *)

Segments == {"names", "vendor", "price-range", "v1", "oid1"}

MaxSegments == 2

\* the paths under /potions of at most MaxSegments segments
Paths == UNION {[1..n -> Segments] : n \in 0..MaxSegments}

RouterPayloads ==
    {[name |-> "n1", vendor_id |-> "v1", price |-> 1],
     [vendor_id |-> "vendor", price |-> 2]}

----------------------------------------------------------------------------
(* Specifications *)

AuthInit ==
    /\ users = {}
    /\ inflight = EmptyBag
    /\ jar = NoCookie

CatalogInit ==
    /\ potions = {}
    /\ nextId = 0
    /\ deleted = {}

Init == AuthInit /\ CatalogInit /\ now = 0 /\ last = NoRequest

\* the auth routes
AuthNext ==
    \/ \E body \in RegisterBodies : RegisterRequest(body)
    \/ \E r \in BagToSet(inflight), storeOk \in BOOLEAN :
          RegisterSave(r, storeOk)
    \/ \E body \in LoginBodies, storeOk \in BOOLEAN : Login(body, storeOk)
    \/ Logout

\* the routes that write the catalog, with the reads by id and by vendor
CatalogNext ==
    \/ \E op \in {"create", "update", "delete"}, cookie \in Cookies :
          GuardRejects(op, cookie)
    \/ \E cookie \in Cookies, payload \in CreatePayloads,
          storeOk \in BOOLEAN : Create(cookie, payload, storeOk)
    \/ \E cookie \in Cookies, id \in PathIds, payload \in UpdatePayloads,
          storeOk \in BOOLEAN : Update(cookie, id, payload, storeOk)
    \/ \E cookie \in Cookies, id \in PathIds, storeOk \in BOOLEAN :
          Delete(cookie, id, storeOk)
    \/ \E id \in PathIds, storeOk \in BOOLEAN : GetById(id, storeOk)
    \/ \E v \in Vendors, storeOk \in BOOLEAN : ListByVendor(v, storeOk)
    \/ \E storeOk \in BOOLEAN : ListAll(storeOk)
    \/ Tick

\* the read-only queries over a catalog that authenticated creates fill
QueryNext ==
    \/ \E payload \in QueryPayloads, storeOk \in BOOLEAN :
          Create(IssuedToken, payload, storeOk)
    \/ \E query \in PriceQueries, storeOk \in BOOLEAN :
          PriceRange(query, storeOk)
    \/ \E query \in SearchQueries, storeOk \in BOOLEAN :
          Search(query, storeOk)

\* the ratio report over a catalog that authenticated creates fill
RatioNext ==
    \/ \E payload \in RatioPayloads, storeOk \in BOOLEAN :
          Create(IssuedToken, payload, storeOk)
    \/ \E storeOk \in BOOLEAN : StrengthFlavorRatio(storeOk)

\* one client: the auth routes, and requests to the other routes that
\* carry the cookie the client holds
SessionNext ==
    \/ \E body \in SessionRegisterBodies : RegisterRequest(body)
    \/ \E r \in BagToSet(inflight), storeOk \in BOOLEAN :
          RegisterSave(r, storeOk)
    \/ \E body \in SessionLoginBodies, storeOk \in BOOLEAN :
          Login(body, storeOk)
    \/ Logout
    \/ \E op \in {"create", "update", "delete"} : GuardRejects(op, jar)
    \/ \E payload \in SessionPayloads, storeOk \in BOOLEAN :
          Create(jar, payload, storeOk)
    \/ \E id \in SessionIds, payload \in SessionPayloads :
          Update(jar, id, payload, TRUE)
    \/ \E id \in SessionIds : Delete(jar, id, TRUE)
    \/ \E id \in SessionIds : GetById(id, TRUE)
    \/ \E v \in Vendors : ListByVendor(v, TRUE)
    \/ ListAll(TRUE)
    \/ \E query \in SessionQueries : PriceRange(query, TRUE)
    \/ \E query \in SessionQueries : Search(query, TRUE)
    \/ StrengthFlavorRatio(TRUE)
    \/ Tick

\* GET requests on every path, over a catalog that authenticated creates
\* fill
RouterNext ==
    \/ \E payload \in RouterPayloads, storeOk \in BOOLEAN :
          Create(IssuedToken, payload, storeOk)
    \/ \E path \in Paths, storeOk \in BOOLEAN : Get(path, storeOk)

Next ==
    \/ AuthNext \/ CatalogNext \/ QueryNext
    \/ RatioNext \/ SessionNext \/ RouterNext

\* the whole service
Spec == Init /\ [][Next]_vars

\* The three groups of routes share no state but the two collections, and
\* the claims are checked with the requests of one group at a time.
SpecAuth == Init /\ [][AuthNext]_vars

SpecQuery == Init /\ [][QueryNext]_vars

SpecCatalog == Init /\ [][CatalogNext]_vars

SpecRatio == Init /\ [][RatioNext]_vars

SpecSession == Init /\ [][SessionNext]_vars

SpecRouter == Init /\ [][RouterNext]_vars

----------------------------------------------------------------------------
(* Claims on the auth routes *)

UserNamed(name) == {u \in users : u.name = name}

\* the login request names a user and carries a password that is not theirs
WrongPassword(req) ==
    /\ "name" \in DOMAIN req
    /\ UserNamed(req.name) # {}
    /\ "password" \in DOMAIN req
    /\ \A u \in UserNamed(req.name) : u.password # Hash(req.password)

\* the login request names nobody
UnknownUser(req) == "name" \notin DOMAIN req \/ UserNamed(req.name) = {}

LoginAnswer(l) == [status |-> l.status, body |-> l.body, setCookie |-> l.setCookie]

InvalidCredentials ==
    [status |-> 401, body |-> [error |-> "Identifiants invalides"],
     setCookie |-> FALSE]

\* C2: a login with an existing name and a wrong password and a login with
\* a name no user has get the same answer, which does not depend on the
\* user existing: once the lookup has answered, status 401 with the one
\* payload 'Identifiants invalides' and no session cookie.
C2_LoginFailureUniform ==
    (last.op = "login" /\ last.storeOk
        /\ (WrongPassword(last.req) \/ UnknownUser(last.req)))
    => LoginAnswer(last) = InvalidCredentials

\* C2 witness: a refused login with the name of a registered user
C2_Witness ==
    /\ last.op = "login"
    /\ last.storeOk
    /\ WrongPassword(last.req)
    /\ last.status = 401
    /\ jar = NoCookie

HasFieldError(l, param) ==
    /\ l.status = 400
    /\ "errors" \in DOMAIN l.body
    /\ \E i \in 1..Len(l.body.errors) : l.body.errors[i].param = param

\* the length of a submitted field, surrounding whitespace aside
SubmittedLen(req, f) == Len(trim(FieldString(req, f)))

\* C5: register answers every request whose name has fewer than 3 or more
\* than 30 characters with a 400 carrying a field error on name, and every
\* request whose password has fewer than 6 characters with a 400 carrying a
\* field error on password, so that no user is inserted for it; also when
\* the field holds characters that escaping lengthens.
C5_ShortFieldsRejected ==
    last.op = "register" =>
        /\ (SubmittedLen(last.req, "name") < MinNameLen
             \/ SubmittedLen(last.req, "name") > MaxNameLen)
           => HasFieldError(last, "name")
        /\ SubmittedLen(last.req, "password") < MinPasswordLen
           => HasFieldError(last, "password")

\* a step in which the store answers the insert of a suspended registration
InsertAnswered ==
    /\ BagCardinality(inflight') < BagCardinality(inflight)
    /\ last'.op = "register"
    /\ last'.storeOk

OnePerName == \A u, v \in users : u.name = v.name => u = v

SystemError == [error |-> "Erreur systeme"]

\* C6: the users collection holds at most one user per name after any
\* interleaving of register requests; a registration whose name is free
\* when the store inserts it answers 201 and adds that one user, and one
\* whose name is taken by then (registered earlier, or by a concurrent
\* request that won) answers 500 with the generic 'Erreur systeme' only
\* and inserts nothing.
C6_UniqueNames ==
    /\ []OnePerName
    /\ [][InsertAnswered =>
            LET name == SanitizedName(last'.req) IN
            IF UserNamed(name) = {}
            THEN /\ last'.status = 201
                 /\ \E u \in users' : u.name = name /\ users' = users \cup {u}
            ELSE /\ last'.status = 500
                 /\ last'.body = SystemError
                 /\ users' = users]_vars

\* C6 witness: a registration lost to an equal name and was answered 500
C6_Witness ==
    /\ last.op = "register"
    /\ last.storeOk
    /\ last.status = 500
    /\ Cardinality(UserNamed(SanitizedName(last.req))) = 1

----------------------------------------------------------------------------
(* Claims on the catalog routes *)

\* the step answers a request (two equal answers in a row change nothing)
Answers(ops) == last' # last /\ last'.op \in ops

Succeeds(op, status, id) ==
    /\ Answers({op})
    /\ last'.status = status
    /\ last'.req.id = id

\* C1: a create, update or delete whose session cookie is not valid
\* (missing, malformed, badly signed or expired) is answered 401 without any
\* call of the store, and the catalog is left as it was.
C1_GuardedWithoutSession ==
    [][(Answers({"create", "update", "delete"})
            /\ ~VerifyCookie(last'.req.cookie))
        => /\ last'.status = 401
           /\ last'.storeCalls = 0
           /\ potions' = potions]_vars

\* C1 witness: a delete with a token that has expired was answered 401
\* while the catalog held a potion
C1_Witness ==
    /\ last.op = "delete"
    /\ last.req.cookie = IssuedToken
    /\ now >= IssuedToken.exp
    /\ last.status = 401
    /\ potions # {}

\* C4: getById with an identifier that is no key of the store answers 404,
\* never 500.
C4_MalformedIdNotFound ==
    (last.op = "getById" /\ ~CastsToObjectId(last.req.id))
    => last.status = 404

\* C9: an update or a delete with a valid session on an id that resolves
\* to no potion (never assigned, deleted earlier, or no key at all) answers
\* 404 and leaves the catalog unchanged.
C9_AbsentIdNotFound ==
    [][(Answers({"update", "delete"})
            /\ VerifyCookie(last'.req.cookie)
            /\ last'.storeOk
            /\ ById(last'.req.id) = {})
        => /\ last'.status = 404
           /\ potions' = potions]_vars

ListedUnder(vendor_id, id) ==
    \E q \in ListAnswer(ByVendor(vendor_id), TRUE).body.docs : q._id = id

Found(id) == GetByIdAnswer(id, TRUE).status = 200

CreateSucceedsWith(id) ==
    /\ Answers({"create"})
    /\ last'.status = 201
    /\ Has(last'.req.payload, "_id")
    /\ last'.req.payload._id = id

----------------------------------------------------------------------------
(* Claims on the queries *)

\* C3: a search whose metric is none of avg, sum and count is answered
\* 400, whatever the metric (the name of an inherited property included)
\* and whatever groupBy and field are.
C3_UnknownMetricRejected ==
    (last.op = "search"
        /\ Param(last.req, "metric") \notin {"avg", "sum", "count"})
    => last.status = 400

\* a parameter that is sent and is a number: digits only, at least one
IsNumeral(s) == s # <<>> /\ \A i \in 1..Len(s) : IsDigit(s[i])

Given(query, x) == Has(query, x) /\ IsNumeral(query[x])

\* the potions a price-range request selects by the bounds that are given
SelectedBy(query) ==
    IF ~Given(query, "min") /\ ~Given(query, "max") THEN potions
    ELSE {p \in potions :
            /\ Has(p, "price")
            /\ Given(query, "min") => p.price >= Decimal(query.min)
            /\ Given(query, "max") => p.price <= Decimal(query.max)}

\* each bound is a number or is not sent, and min <= max when both are
ValidBounds(query) ==
    /\ \A x \in DOMAIN query : IsNumeral(query[x])
    /\ DOMAIN query = {"min", "max"} => Decimal(query.min) <= Decimal(query.max)

\* C7: listByPriceRange answers exactly the potions the bounds select:
\* those with min <= price <= max when both are given (min <= max), those
\* with price >= min with min alone, those with price <= max with max
\* alone, and the whole catalog with neither.
C7_PriceRangeExact ==
    (last.op = "priceRange" /\ last.storeOk /\ ValidBounds(last.req))
    => last.status = 200 /\ last.body.docs = SelectedBy(last.req)

\* C7 witness: both bounds given, and they select some potions but not all
C7_Witness ==
    /\ last.op = "priceRange"
    /\ last.storeOk
    /\ DOMAIN last.req = {"min", "max"}
    /\ ValidBounds(last.req)
    /\ last.body.docs # {}
    /\ \E p \in potions : Has(p, "price") /\ p \notin last.body.docs

\* C8: a bound value that is not a number (empty, alphabetic, or a number
\* followed by other characters) is treated as absent: no error, and the
\* answer is that of the request without that bound.
C8_NonNumericBoundIgnored ==
    (last.op = "priceRange" /\ last.storeOk
        /\ \E x \in DOMAIN last.req : ~IsNumeral(last.req[x]))
    => last.status = 200 /\ last.body.docs = SelectedBy(last.req)

----------------------------------------------------------------------------
(* Claims on store failures *)

\* C11: in every operation a failure of the store call is reported to the
\* caller as a system error: the request is answered, with status 500.
C11_StoreFailureIs500 ==
    (last.op # "none" /\ ~last.storeOk) => last.status = 500

----------------------------------------------------------------------------
(* Claims on the analytics routes *)

\* the potions whose groupBy field has the value a group is keyed by
GroupOf(key, groupBy) == {p \in potions : GroupKey(p, groupBy) = key}

\* C12: a search with metric count and a groupBy is answered, whenever the
\* store answers, 200 with exactly one group per distinct value of the
\* groupBy field among the potions, each carrying the number of potions of
\* that group; the answer is the same whether field is sent or not and
\* whatever it is.
C12_CountIgnoresField ==
    (last.op = "search" /\ last.storeOk
        /\ Param(last.req, "metric") = "count"
        /\ Param(last.req, "groupBy") # "")
    => /\ last.status = 200
       /\ LET groups == last.body.docs
              groupBy == last.req.groupBy
          IN  /\ \A p \in potions :
                    \E g \in groups : g._id = GroupKey(p, groupBy)
              /\ \A g, h \in groups : g._id = h._id => g = h
              /\ \A g \in groups :
                    /\ GroupOf(g._id, groupBy) # {}
                    /\ g.count = Cardinality(GroupOf(g._id, groupBy))

\* C12 witness: a count by vendor with a field sent, answered with a group
\* of two potions
C12_Witness ==
    /\ last.op = "search"
    /\ last.storeOk
    /\ Param(last.req, "metric") = "count"
    /\ Param(last.req, "groupBy") = "vendor_id"
    /\ Has(last.req, "field")
    /\ last.status = 200
    /\ \E g \in last.body.docs : g.count = 2

\* the entries of a ratio report for potion p
EntriesOf(docs, p) == {e \in docs : e._id = p._id}

\* C13: the ratio report, whenever the store answers, is a 200 with one
\* entry per potion of the catalog; the entry of a potion whose
\* ratings.flavor is 0 carries a null ratio (no error for the request, no
\* infinite value), and the entry of a potion with both ratings and a
\* non-zero flavor carries the quotient strength / flavor.
C13_ZeroFlavorIsNull ==
    (last.op = "ratio" /\ last.storeOk)
    => /\ last.status = 200
       /\ Cardinality(last.body.entries) = Cardinality(potions)
       /\ \A p \in potions :
            /\ Cardinality(EntriesOf(last.body.entries, p)) = 1
            /\ \A e \in EntriesOf(last.body.entries, p) :
                LET r == e.strengthFlavorRatio IN
                /\ r.kind = "number" => r.den # 0
                /\ (HasRating(p, "flavor") /\ p.ratings.flavor = 0)
                   => r.kind = "null"
                /\ (HasRating(p, "strength") /\ HasRating(p, "flavor")
                        /\ p.ratings.flavor # 0)
                   => /\ r.kind = "number"
                      /\ r.num * p.ratings.flavor = p.ratings.strength * r.den

\* C13 witness: a report over a potion of flavor 0 and one of non-zero flavor
C13_Witness ==
    /\ last.op = "ratio"
    /\ last.status = 200
    /\ \E p \in potions : HasRating(p, "flavor") /\ p.ratings.flavor = 0
                          /\ p.ratings.strength # 0
    /\ \E e \in last.body.entries : e.strengthFlavorRatio.kind = "number"

----------------------------------------------------------------------------
(* Claims on the session *)

Anonymous == jar = NoCookie

Authenticated == jar.kind = "jwt"

\* the step answers a login with 200 (a login repeated later gets the same
\* answer and a new token)
LoginSucceeds ==
    /\ (last' # last \/ jar' # jar)
    /\ last'.op = "login"
    /\ last'.status = 200

\* C14: the session is Anonymous or Authenticated; the cookie is set only
\* by a login answered 200, which sets a token valid for 24 hours, and
\* discarded only by logout; every other request (register, a refused
\* login, the catalog and analytics routes) leaves it as it was; a logout
\* is answered 200 and leaves the session Anonymous, whatever it was.
C14_SessionStateMachine ==
    /\ [](Anonymous \/ Authenticated)
    /\ [](last.op = "logout" => last.status = 200 /\ Anonymous)
    /\ [][jar' # jar =>
            \/ LoginSucceeds
            \/ last'.op = "logout" /\ Authenticated /\ Anonymous']_vars
    /\ [][LoginSucceeds =>
            /\ Authenticated'
            /\ jar'.exp = now + TokenValidityHours
            /\ VerifyCookie(jar')]_vars

\* C14 witness: a client that logged in, created a potion, and logged out
C14_Witness ==
    /\ last.op = "logout"
    /\ Anonymous
    /\ users # {}
    /\ potions # {}

----------------------------------------------------------------------------
(* Claims on the update *)

\* new is old with the fields of payload set and every other field kept
MergedOnto(old, payload, new) ==
    /\ DOMAIN new = DOMAIN old \cup DOMAIN payload
    /\ \A f \in DOMAIN payload : new[f] = payload[f]
    /\ \A f \in DOMAIN old \ DOMAIN payload : new[f] = old[f]

\* C15: an update answered 200 changes, in the potion its id names, only
\* the fields the payload carries: the other fields keep their values, the
\* identifier is the same (also when the payload carries an _id), every
\* other potion is unchanged, and the answer is the updated potion.
C15_UpdateFrame ==
    [][(Answers({"update"}) /\ last'.status = 200)
        => \E old \in potions, new \in potions' :
            /\ old._id = last'.req.id
            /\ new._id = old._id
            /\ MergedOnto(old, last'.req.payload, new)
            /\ potions' \ {new} = potions \ {old}
            /\ last'.body = new]_vars

\* C15 witness: an update whose payload carries an _id was answered 200
\* for a potion that has a field the payload does not carry, beside
\* another potion
C15_Witness ==
    /\ last.op = "update"
    /\ last.status = 200
    /\ Has(last.req.payload, "_id")
    /\ Has(last.body, "vendor_id")
    /\ Cardinality(potions) = 2

----------------------------------------------------------------------------
(* Claims on the register/login round trip *)

\* a login with this body would be accepted in the current state
LoginAccepts(body) == CredentialsOk(findOne(body), body)

\* C16: once register has answered 201 for a name and a password, a login
\* submitting that same name and that same password is accepted (users are
\* never removed, so it is accepted from then on).
C16_RoundTrip ==
    [][(InsertAnswered /\ last'.status = 201)
        => \A body \in RegisterBodies :
              last'.req = body => LoginAccepts(body)']_vars

----------------------------------------------------------------------------
(* Claims on the dispatch *)

\* the last request answered was a GET dispatched by the potions router
Dispatched == last.op # "none" /\ Has(last.req, "path")

\* C17: GET /potions/names, GET /potions/vendor/:vendor_id and
\* GET /potions/price-range are handled by their own handlers, and the
\* handler of GET /potions/:id runs only for a path of one segment that no
\* route registered before it matches (never with id 'names' or
\* 'price-range', never for a path under vendor/).
C17_DispatchOrder ==
    Dispatched =>
        LET path == last.req.path IN
        /\ path = <<"names">> => last.op = "names"
        /\ path = <<"price-range">> => last.op = "priceRange"
        /\ (Len(path) = 2 /\ path[1] = "vendor") => last.op = "listByVendor"
        /\ last.op = "getById"
           => /\ Len(path) = 1
              /\ path[1] \notin {"names", "price-range"}

\* C17 witness: GET /potions/names answered with the names of a catalog
\* that is not empty
C17_Witness ==
    /\ Dispatched
    /\ last.req.path = <<"names">>
    /\ last.status = 200
    /\ Has(last.body, "names")
    /\ potions # {}

====
